---- MODULE Spec2Model ----
(***************************************************************************)
(* Model of src/indexes/btree.py: the B-tree index (SmartKey, Page, BTree) *)
(* and the hash-map reference NaiveTreeIndex it is tested against.         *)
(*                                                                         *)
(* A Page is the record [bottom, keys, children]; an entry of keys is the  *)
(* record [key, value] of a SmartKey, value being the list of the values   *)
(* inserted under the key.  Python mutates pages in place; here every      *)
(* method is an operator that returns the page after the call.  A method   *)
(* that can raise returns a record with the page as the call left it and   *)
(* the name of the exception ("None" when it returned normally).           *)
(***************************************************************************)
EXTENDS Integers, Sequences, FiniteSets, TLC

\* The fan-out parameter.  src/indexes/btree.py:12 sets DEGREE = 16; the
\* model runs the same code with a small DEGREE, so that splits, borrows,
\* merges and trees of three levels happen within the keys below.
DEGREE == 2

\* Keys are 1..MaxKey, a key holds at most MaxVals values, and at most
\* MaxRepeated keys at a time hold more than one value.
MaxKey == 9
MaxVals == 2
MaxRepeated == 2

Keys == 1..MaxKey
Values == 1..MaxVals

\* root:   BTree.root (lines 217-221), the tree under test
\* naive:  NaiveTreeIndex.tree (lines 270-271), the reference
\* raised: the exception the last call on the tree raised, "None" when it
\*         returned
\* last:   the last call of the driver (lines 328-348): its kind, where its
\*         key was held before it, and the levels the tree had before it
VARIABLES root, naive, raised, last

vars == <<root, naive, raised, last>>

----------------------------------------------------------------------------
(* Python list helpers, with Python's 0-based positions. *)

Max(a, b) == IF a >= b THEN a ELSE b
Min(a, b) == IF a <= b THEN a ELSE b

\* s[i]
At(s, i) == s[i + 1]

\* s[lo:hi], clipped as Python clips a slice
Slice(s, lo, hi) == SubSeq(s, Min(lo, Len(s)) + 1, Min(hi, Len(s)))

\* s.insert(i, x)
ListInsert(s, i, x) == Slice(s, 0, i) \o <<x>> \o Slice(s, i, Len(s))

\* s.pop(i)
ListPop(s, i) == Slice(s, 0, i) \o Slice(s, i + 1, Len(s))

\* s[i] = x
ListSet(s, i, x) == [s EXCEPT ![i + 1] = x]

----------------------------------------------------------------------------
(* SmartKey and Page *)

SmartKey(key, value) == [key |-> key, value |-> value]

Page(bottom) == [bottom |-> bottom, keys |-> <<>>, children |-> <<>>]

\* bisect.bisect_right(keys, SmartKey(key)) with SmartKey.__lt__: the binary
\* search of the standard library, on the window [lo, hi).
RECURSIVE bisect_from(_, _, _, _)
bisect_from(keys, key, lo, hi) ==
  IF lo < hi
    THEN LET mid == (lo + hi) \div 2
         IN  IF key < At(keys, mid).key
               THEN bisect_from(keys, key, lo, mid)
               ELSE bisect_from(keys, key, mid + 1, hi)
    ELSE lo

bisect_right(keys, key) == bisect_from(keys, key, 0, Len(keys))

\* Page.add_key_value with line 46 replacing the values of the key.
PageAddReplacing(self, key, value) ==
  LET wrapped_key == SmartKey(key, <<value>>)
      left_upper_index == bisect_right(self.keys, key)
  IN  IF Len(self.keys) = 0
        THEN [self EXCEPT !.keys = Append(self.keys, wrapped_key)]
        ELSE IF left_upper_index > 0 /\ At(self.keys, left_upper_index - 1).key = key
               THEN [self EXCEPT !.keys[left_upper_index].value = wrapped_key.value]
               ELSE [self EXCEPT !.keys = ListInsert(self.keys, left_upper_index, wrapped_key)]

\* Page.add_key_value with line 46 putting the new value first.
PageAddInFront(self, key, value) ==
  LET wrapped_key == SmartKey(key, <<value>>)
      left_upper_index == bisect_right(self.keys, key)
  IN  IF Len(self.keys) = 0
        THEN [self EXCEPT !.keys = Append(self.keys, wrapped_key)]
        ELSE IF left_upper_index > 0 /\ At(self.keys, left_upper_index - 1).key = key
               THEN [self EXCEPT !.keys[left_upper_index].value = wrapped_key.value \o @]
               ELSE [self EXCEPT !.keys = ListInsert(self.keys, left_upper_index, wrapped_key)]

\* Page.add_key_value
PageAdd(self, key, value) ==
  LET wrapped_key == SmartKey(key, <<value>>)
      left_upper_index == bisect_right(self.keys, key)
  IN  IF Len(self.keys) = 0
        THEN [self EXCEPT !.keys = Append(self.keys, wrapped_key)]
        ELSE IF left_upper_index > 0 /\ At(self.keys, left_upper_index - 1).key = key
               THEN [self EXCEPT !.keys[left_upper_index].value = @ \o wrapped_key.value]
               ELSE [self EXCEPT !.keys = ListInsert(self.keys, left_upper_index, wrapped_key)]

is_external(self) == self.bottom

\* The result of a lookup: None, a list of values, or an exception.
None == [kind |-> "None", value |-> <<>>]
Found(value) == [kind |-> "values", value |-> value]
IndexError == [kind |-> "IndexError", value |-> <<>>]

\* Page.find
RECURSIVE find(_, _)
find(self, key) ==
  LET left_upper_index == bisect_right(self.keys, key)
  IN  IF left_upper_index = 0
        THEN IF Len(self.children) = 0
               THEN None
               ELSE IF Len(self.keys) = 0
                      THEN IndexError
                      ELSE IF key > At(self.keys, 0).key
                             THEN IF Len(self.children) < 2
                                    THEN IndexError
                                    ELSE find(At(self.children, 1), key)
                             ELSE find(At(self.children, 0), key)
        ELSE IF At(self.keys, left_upper_index - 1).key = key
               THEN Found(At(self.keys, left_upper_index - 1).value)
               ELSE IF is_external(self)
                      THEN None
                      ELSE IF key > At(self.keys, left_upper_index - 1).key
                             THEN IF Len(self.children) <= left_upper_index
                                    THEN IndexError
                                    ELSE find(At(self.children, left_upper_index), key)
                             ELSE find(At(self.children, left_upper_index - 1), key)

\* Page.is_full with line 85 testing len(self.keys) >= DEGREE * 2 - 1.
is_full_or_more(self) == Len(self.keys) >= DEGREE * 2 - 1

\* Page.is_full
is_full(self) == Len(self.keys) = DEGREE * 2 - 1

\* Page.split with line 98 creating a bottom page whatever self is.
splitIntoBottom(self) ==
  LET new_page == [bottom |-> TRUE,
                   keys |-> Slice(self.keys, DEGREE, Len(self.keys)),
                   children |-> Slice(self.children, DEGREE, Len(self.children))]
  IN  [self |-> [self EXCEPT !.keys = Slice(self.keys, 0, DEGREE - 1),
                             !.children = Slice(self.children, 0, DEGREE)],
       r_key |-> At(self.keys, DEGREE - 1),
       new_page |-> new_page]

\* Page.split with lines 95-96 cutting the children one place to the left.
splitChildrenEarly(self) ==
  LET new_page == [bottom |-> self.bottom,
                   keys |-> Slice(self.keys, DEGREE, Len(self.keys)),
                   children |-> Slice(self.children, DEGREE - 1, Len(self.children))]
  IN  [self |-> [self EXCEPT !.keys = Slice(self.keys, 0, DEGREE - 1),
                             !.children = Slice(self.children, 0, DEGREE - 1)],
       r_key |-> At(self.keys, DEGREE - 1),
       new_page |-> new_page]

\* Page.split with line 93 taking keys[DEGREE - 1:], the promoted key too.
splitKeepingMedian(self) ==
  LET new_page == [bottom |-> self.bottom,
                   keys |-> Slice(self.keys, DEGREE - 1, Len(self.keys)),
                   children |-> Slice(self.children, DEGREE, Len(self.children))]
  IN  [self |-> [self EXCEPT !.keys = Slice(self.keys, 0, DEGREE - 1),
                             !.children = Slice(self.children, 0, DEGREE)],
       r_key |-> At(self.keys, DEGREE - 1),
       new_page |-> new_page]

\* Page.split: the page as it is left, the promoted key and the new page.
split(self) ==
  LET new_page == [bottom |-> self.bottom,
                   keys |-> Slice(self.keys, DEGREE, Len(self.keys)),
                   children |-> Slice(self.children, DEGREE, Len(self.children))]
  IN  [self |-> [self EXCEPT !.keys = Slice(self.keys, 0, DEGREE - 1),
                             !.children = Slice(self.children, 0, DEGREE)],
       r_key |-> At(self.keys, DEGREE - 1),
       new_page |-> new_page]

\* Page.split_and_add_page, ind being self.children.index(ch)
split_and_add_page(self, ind) ==
  LET s == split(At(self.children, ind))
  IN  [self EXCEPT !.children = ListInsert(ListSet(self.children, ind, s.self), ind + 1, s.new_page),
                   !.keys = ListInsert(self.keys, ind, s.r_key)]

\* Page.find_predecessor with line 113 returning the first key of the page.
RECURSIVE find_predecessor_first(_)
find_predecessor_first(self) ==
  IF is_external(self)
    THEN IF Len(self.keys) = 0
           THEN [exc |-> "IndexError", k |-> SmartKey(0, <<>>)]
           ELSE [exc |-> "None", k |-> At(self.keys, 0)]
    ELSE IF Len(self.children) = 0
           THEN [exc |-> "IndexError", k |-> SmartKey(0, <<>>)]
           ELSE find_predecessor_first(At(self.children, Len(self.children) - 1))

\* Page.find_predecessor and Page.find_successor: the key found, or the
\* IndexError of keys[-1], keys[0], children[-1] or children[0] on an empty list.
RECURSIVE find_predecessor(_)
find_predecessor(self) ==
  IF is_external(self)
    THEN IF Len(self.keys) = 0
           THEN [exc |-> "IndexError", k |-> SmartKey(0, <<>>)]
           ELSE [exc |-> "None", k |-> At(self.keys, Len(self.keys) - 1)]
    ELSE IF Len(self.children) = 0
           THEN [exc |-> "IndexError", k |-> SmartKey(0, <<>>)]
           ELSE find_predecessor(At(self.children, Len(self.children) - 1))

RECURSIVE find_successor(_)
find_successor(self) ==
  IF is_external(self)
    THEN IF Len(self.keys) = 0
           THEN [exc |-> "IndexError", k |-> SmartKey(0, <<>>)]
           ELSE [exc |-> "None", k |-> At(self.keys, 0)]
    ELSE IF Len(self.children) = 0
           THEN [exc |-> "IndexError", k |-> SmartKey(0, <<>>)]
           ELSE find_successor(At(self.children, 0))

\* Page.merge without line 125: the key between the two pages is dropped.
mergeWithoutKey(self, ind, left, right) ==
  LET new_page == [bottom |-> is_external(left) /\ is_external(right),
                   keys |-> left.keys \o right.keys,
                   children |-> left.children \o right.children]
  IN  [self EXCEPT !.children = ListSet(ListPop(self.children, ind + 1), ind, new_page),
                   !.keys = ListPop(self.keys, ind)]

\* Page.merge: self after the call; the merged page is its child ind.
merge(self, ind, left, right) ==
  LET new_page == [bottom |-> is_external(left) /\ is_external(right),
                   keys |-> Append(left.keys, At(self.keys, ind)) \o right.keys,
                   children |-> left.children \o right.children]
  IN  [self EXCEPT !.children = ListSet(ListPop(self.children, ind + 1), ind, new_page),
                   !.keys = ListPop(self.keys, ind)]

\* Page.borrow_from_left
borrow_from_left(self, kind, ind) ==
  LET left == At(self.children, ind - 1)
      cur == At(self.children, ind)
      cur1 == [cur EXCEPT !.keys = ListInsert(cur.keys, 0, At(self.keys, kind))]
      left1 == [left EXCEPT !.keys = ListPop(left.keys, Len(left.keys) - 1)]
      cur2 == IF ~is_external(cur)
                THEN [cur1 EXCEPT !.children =
                        ListInsert(cur.children, 0, At(left.children, Len(left.children) - 1))]
                ELSE cur1
      left2 == IF ~is_external(cur)
                 THEN [left1 EXCEPT !.children = ListPop(left.children, Len(left.children) - 1)]
                 ELSE left1
  IN  [self EXCEPT !.keys = ListSet(self.keys, kind, At(left.keys, Len(left.keys) - 1)),
                   !.children = ListSet(ListSet(self.children, ind - 1, left2), ind, cur2)]

\* Page.borrow_from_right without line 154: the key between the two pages
\* stays, and the first key of the right page is dropped.
borrow_from_right_keeping_separator(self, ind) ==
  LET right == At(self.children, ind + 1)
      cur == At(self.children, ind)
      cur1 == [cur EXCEPT !.keys = Append(cur.keys, At(self.keys, ind))]
      right1 == [right EXCEPT !.keys = ListPop(right.keys, 0)]
      cur2 == IF ~is_external(cur)
                THEN [cur1 EXCEPT !.children = Append(cur.children, At(right.children, 0))]
                ELSE cur1
      right2 == IF ~is_external(cur)
                  THEN [right1 EXCEPT !.children = ListPop(right.children, 0)]
                  ELSE right1
  IN  [self EXCEPT !.children = ListSet(ListSet(self.children, ind + 1, right2), ind, cur2)]

\* Page.borrow_from_right
borrow_from_right(self, ind) ==
  LET right == At(self.children, ind + 1)
      cur == At(self.children, ind)
      cur1 == [cur EXCEPT !.keys = Append(cur.keys, At(self.keys, ind))]
      right1 == [right EXCEPT !.keys = ListPop(right.keys, 0)]
      cur2 == IF ~is_external(cur)
                THEN [cur1 EXCEPT !.children = Append(cur.children, At(right.children, 0))]
                ELSE cur1
      right2 == IF ~is_external(cur)
                  THEN [right1 EXCEPT !.children = ListPop(right.children, 0)]
                  ELSE right1
  IN  [self EXCEPT !.keys = ListSet(self.keys, ind, At(right.keys, 0)),
                   !.children = ListSet(ListSet(self.children, ind + 1, right2), ind, cur2)]

\* What Page.remove hands back: self as the call left it, the page it
\* returned, and the exception it raised ("None" when it returned).
Returned(self, ret, exc) == [self |-> self, ret |-> ret, exc |-> exc]

RECURSIVE remove(_, _)
RECURSIVE remove_case2(_, _, _)
RECURSIVE remove_case3(_, _, _)

\* Page.remove, line 207: self.remove(key) once more, result dropped, then
\* line 211 returns self.
remove_retry(self, key) ==
  LET r == remove(self, key)
  IN  Returned(r.self, r.self, r.exc)

\* Page.remove, the merge branches without lines 187-188 and 204-205: self
\* is returned also when the merge left it without keys.
remove_merge_keeping_self(self, key, ind, again) ==
  IF Len(self.children) < ind + 2
    THEN Returned(self, self, "IndexError")
    ELSE LET self1 == merge(self, ind, At(self.children, ind), At(self.children, ind + 1))
             r == remove(At(self1.children, ind), key)
             self2 == [self1 EXCEPT !.children = ListSet(self1.children, ind, r.self)]
         IN  IF r.exc # "None"
               THEN Returned(self2, self2, r.exc)
               ELSE IF again /\ Len(self2.keys) # 0
                      THEN remove_retry(self2, key)
                      ELSE Returned(self2, self2, "None")

\* Page.remove, lines 185-188 and 202-205: merge children ind and ind + 1,
\* remove the key from the merged page, and return the merged page when
\* self is left without keys.  `again` tells whether line 207 follows.
remove_merge(self, key, ind, again) ==
  IF Len(self.children) < ind + 2
    THEN Returned(self, self, "IndexError")
    ELSE LET self1 == merge(self, ind, At(self.children, ind), At(self.children, ind + 1))
             r == remove(At(self1.children, ind), key)
             self2 == [self1 EXCEPT !.children = ListSet(self1.children, ind, r.self)]
         IN  IF r.exc # "None"
               THEN Returned(self2, self2, r.exc)
               ELSE IF Len(self2.keys) = 0
                      THEN Returned(self2, r.self, "None")
                      ELSE IF again
                             THEN remove_retry(self2, key)
                             ELSE Returned(self2, self2, "None")

\* Page.remove, case 2, with line 176 testing len(pred_ch.keys) >= DEGREE - 1.
remove_case2_eager(self, key, ind) ==
  IF Len(self.children) < ind + 2
    THEN Returned(self, self, "IndexError")
    ELSE
      LET pred_ch == At(self.children, ind)
          succ_ch == At(self.children, ind + 1)
      IN  IF Len(pred_ch.keys) >= DEGREE - 1
            THEN LET p == find_predecessor(pred_ch)
                     self1 == [self EXCEPT !.keys = ListSet(self.keys, ind, p.k)]
                     r == remove(pred_ch, p.k.key)
                     self2 == [self1 EXCEPT !.children = ListSet(self1.children, ind, r.self)]
                 IN  IF p.exc # "None"
                       THEN Returned(self, self, p.exc)
                       ELSE Returned(self2, self2, r.exc)
            ELSE IF Len(succ_ch.keys) >= DEGREE
                   THEN LET p == find_successor(succ_ch)
                            self1 == [self EXCEPT !.keys = ListSet(self.keys, ind, p.k)]
                            r == remove(succ_ch, p.k.key)
                            self2 == [self1 EXCEPT !.children =
                                        ListSet(self1.children, ind + 1, r.self)]
                        IN  IF p.exc # "None"
                              THEN Returned(self, self, p.exc)
                              ELSE Returned(self2, self2, r.exc)
                   ELSE remove_merge(self, key, ind, FALSE)

\* Page.remove, case 2 (lines 172-188): the key is keys[ind] of this page.
remove_case2(self, key, ind) ==
  IF Len(self.children) < ind + 2
    THEN Returned(self, self, "IndexError")
    ELSE
      LET pred_ch == At(self.children, ind)
          succ_ch == At(self.children, ind + 1)
      IN  IF Len(pred_ch.keys) >= DEGREE
            THEN LET p == find_predecessor(pred_ch)
                     self1 == [self EXCEPT !.keys = ListSet(self.keys, ind, p.k)]
                     r == remove(pred_ch, p.k.key)
                     self2 == [self1 EXCEPT !.children = ListSet(self1.children, ind, r.self)]
                 IN  IF p.exc # "None"
                       THEN Returned(self, self, p.exc)
                       ELSE Returned(self2, self2, r.exc)
            ELSE IF Len(succ_ch.keys) >= DEGREE
                   THEN LET p == find_successor(succ_ch)
                            self1 == [self EXCEPT !.keys = ListSet(self.keys, ind, p.k)]
                            r == remove(succ_ch, p.k.key)
                            self2 == [self1 EXCEPT !.children =
                                        ListSet(self1.children, ind + 1, r.self)]
                        IN  IF p.exc # "None"
                              THEN Returned(self, self, p.exc)
                              ELSE Returned(self2, self2, r.exc)
                   ELSE remove_merge(self, key, ind, FALSE)

\* Page.remove, case 3, with lines 197 and 199 borrowing from a sibling
\* that holds DEGREE-1 keys too.
remove_case3_borrowing(self, key, ind) ==
  LET needed_ch_ind == IF key > At(self.keys, ind).key THEN ind + 1 ELSE ind
  IN  IF Len(self.children) <= needed_ch_ind
        THEN Returned(self, self, "IndexError")
        ELSE
          LET ch == At(self.children, needed_ch_ind)
          IN  IF Len(ch.keys) = DEGREE - 1
                THEN IF /\ needed_ch_ind + 1 < Len(self.children)
                        /\ Len(At(self.children, needed_ch_ind + 1).keys) >= DEGREE - 1
                       THEN remove_retry(borrow_from_right(self, needed_ch_ind), key)
                       ELSE IF /\ needed_ch_ind > 0
                               /\ Len(At(self.children, needed_ch_ind - 1).keys) >= DEGREE - 1
                              THEN remove_retry(borrow_from_left(self, ind, needed_ch_ind), key)
                              ELSE remove_merge(self, key, ind, TRUE)
                ELSE LET r == remove(ch, key)
                         self1 == [self EXCEPT !.children =
                                     ListSet(self.children, needed_ch_ind, r.self)]
                     IN  Returned(self1, self1, r.exc)

\* Page.remove, case 3 (lines 190-209): the key is not in this page.
remove_case3(self, key, ind) ==
  LET needed_ch_ind == IF key > At(self.keys, ind).key THEN ind + 1 ELSE ind
  IN  IF Len(self.children) <= needed_ch_ind
        THEN Returned(self, self, "IndexError")
        ELSE
          LET ch == At(self.children, needed_ch_ind)
          IN  IF Len(ch.keys) = DEGREE - 1
                THEN IF /\ needed_ch_ind + 1 < Len(self.children)
                        /\ Len(At(self.children, needed_ch_ind + 1).keys) > DEGREE - 1
                       THEN remove_retry(borrow_from_right(self, needed_ch_ind), key)
                       ELSE IF /\ needed_ch_ind > 0
                               /\ Len(At(self.children, needed_ch_ind - 1).keys) > DEGREE - 1
                              THEN remove_retry(borrow_from_left(self, ind, needed_ch_ind), key)
                              ELSE remove_merge(self, key, ind, TRUE)
                ELSE LET r == remove(ch, key)
                         self1 == [self EXCEPT !.children =
                                     ListSet(self.children, needed_ch_ind, r.self)]
                     IN  Returned(self1, self1, r.exc)

\* Page.remove with line 164 testing left_upper_index > 1.
remove_after_first(self, key) ==
  LET left_upper_index == bisect_right(self.keys, key)
      ind == Max(left_upper_index - 1, 0)
  IN  IF is_external(self)
        THEN LET self1 == IF /\ left_upper_index > 1
                             /\ At(self.keys, left_upper_index - 1).key = key
                            THEN [self EXCEPT !.keys = ListPop(self.keys, left_upper_index - 1)]
                            ELSE self
             IN  Returned(self1, self1, "None")
        ELSE IF Len(self.keys) = 0
               THEN Returned(self, self, "IndexError")
               ELSE IF At(self.keys, ind).key = key
                      THEN remove_case2(self, key, ind)
                      ELSE remove_case3(self, key, ind)

\* Page.remove
remove(self, key) ==
  LET left_upper_index == bisect_right(self.keys, key)
      ind == Max(left_upper_index - 1, 0)
  IN  IF is_external(self)
        THEN LET self1 == IF /\ left_upper_index > 0
                             /\ At(self.keys, left_upper_index - 1).key = key
                            THEN [self EXCEPT !.keys = ListPop(self.keys, left_upper_index - 1)]
                            ELSE self
             IN  Returned(self1, self1, "None")
        ELSE IF Len(self.keys) = 0
               THEN Returned(self, self, "IndexError")
               ELSE IF At(self.keys, ind).key = key
                      THEN remove_case2(self, key, ind)
                      ELSE remove_case3(self, key, ind)

----------------------------------------------------------------------------
(* BTree *)

\* key in page.keys, with SmartKey.__eq__
key_in(key, keys) == \E i \in 1..Len(keys) : keys[i].key = key

\* BTree._put: the page after the call and the exception raised.  Page has
\* no method close, so line 263 raises AttributeError after every descent.
RECURSIVE put(_, _, _)
put(page, key, value) ==
  IF is_external(page) \/ key_in(key, page.keys)
    THEN [self |-> PageAdd(page, key, value), exc |-> "None"]
    ELSE LET ind == bisect_right(page.keys, key)
         IN  IF Len(page.children) <= ind
               THEN [self |-> page, exc |-> "IndexError"]
               ELSE LET r == put(At(page.children, ind), key, value)
                        page1 == [page EXCEPT !.children = ListSet(page.children, ind, r.self)]
                    IN  IF r.exc # "None"
                          THEN [self |-> page1, exc |-> r.exc]
                          ELSE [self |-> IF is_full(r.self)
                                           THEN split_and_add_page(page1, ind)
                                           ELSE page1,
                                exc |-> "AttributeError"]

\* BTree.add_key_value without lines 225-231: the root is never split.
add_key_value_keeping_root(rt, key, value) == put(rt, key, value)

\* BTree.add_key_value: the root after the call and the exception raised.
add_key_value(rt, key, value) ==
  LET r == put(rt, key, value)
  IN  IF r.exc # "None"
        THEN r
        ELSE IF is_full(r.self)
               THEN LET s == split(r.self)
                    IN  [self |-> [bottom |-> FALSE,
                                   keys |-> <<s.r_key>>,
                                   children |-> <<s.self, s.new_page>>],
                         exc |-> "None"]
               ELSE r

\* BTree.find_key
find_key(rt, key) == find(rt, key)

\* BTree.remove with line 237 dropping the page Page.remove returns.
tree_remove_keeping_root(rt, key) ==
  LET r == remove(rt, key)
  IN  [self |-> r.self, exc |-> r.exc]

\* BTree.remove: the root after the call and the exception raised.
tree_remove(rt, key) ==
  LET r == remove(rt, key)
  IN  IF r.exc # "None"
        THEN [self |-> r.self, exc |-> r.exc]
        ELSE [self |-> r.ret, exc |-> "None"]

----------------------------------------------------------------------------
(* The calls a public operation makes on pages, in the order it makes them. *)

\* A call of a method of Page: the method, the page it is called on as it
\* is at the moment of the call, the index it is passed (merge, borrow_*),
\* the caller, and the number of Page.remove frames on the stack.  The
\* caller of a Page.remove is "tree" (line 237), "parent" (lines 179, 183,
\* 186, 203, 209: a call on a child page) or "retry" (line 207).
Call(fn, self, ind, by, depth) ==
  [fn |-> fn, self |-> self, ind |-> ind, by |-> by, depth |-> depth]

RECURSIVE remove_calls(_, _, _, _)
RECURSIVE remove_case2_calls(_, _, _, _)
RECURSIVE remove_case3_calls(_, _, _, _)

\* The calls of lines 185-188 and 202-207: merge, merged.remove(key), and
\* self.remove(key) once more when `again` and self still has keys.
remove_merge_calls(self, key, ind, again, depth) ==
  IF Len(self.children) < ind + 2
    THEN <<>>
    ELSE LET self1 == merge(self, ind, At(self.children, ind), At(self.children, ind + 1))
             r == remove(At(self1.children, ind), key)
             self2 == [self1 EXCEPT !.children = ListSet(self1.children, ind, r.self)]
         IN  <<Call("merge", self, ind, "remove", depth)>>
             \o remove_calls(At(self1.children, ind), key, "parent", depth + 1)
             \o (IF r.exc = "None" /\ Len(self2.keys) # 0 /\ again
                   THEN remove_calls(self2, key, "retry", depth + 1)
                   ELSE <<>>)

\* The calls of case 2 (lines 172-188).
remove_case2_calls(self, key, ind, depth) ==
  IF Len(self.children) < ind + 2
    THEN <<>>
    ELSE
      LET pred_ch == At(self.children, ind)
          succ_ch == At(self.children, ind + 1)
      IN  IF Len(pred_ch.keys) >= DEGREE
            THEN LET p == find_predecessor(pred_ch)
                 IN  IF p.exc # "None"
                       THEN <<>>
                       ELSE remove_calls(pred_ch, p.k.key, "parent", depth + 1)
            ELSE IF Len(succ_ch.keys) >= DEGREE
                   THEN LET p == find_successor(succ_ch)
                        IN  IF p.exc # "None"
                              THEN <<>>
                              ELSE remove_calls(succ_ch, p.k.key, "parent", depth + 1)
                   ELSE remove_merge_calls(self, key, ind, FALSE, depth)

\* The calls of case 3 (lines 190-209).
remove_case3_calls(self, key, ind, depth) ==
  LET needed_ch_ind == IF key > At(self.keys, ind).key THEN ind + 1 ELSE ind
  IN  IF Len(self.children) <= needed_ch_ind
        THEN <<>>
        ELSE
          LET ch == At(self.children, needed_ch_ind)
          IN  IF Len(ch.keys) = DEGREE - 1
                THEN IF /\ needed_ch_ind + 1 < Len(self.children)
                        /\ Len(At(self.children, needed_ch_ind + 1).keys) > DEGREE - 1
                       THEN <<Call("borrow_from_right", self, needed_ch_ind, "remove", depth)>>
                            \o remove_calls(borrow_from_right(self, needed_ch_ind),
                                            key, "retry", depth + 1)
                       ELSE IF /\ needed_ch_ind > 0
                               /\ Len(At(self.children, needed_ch_ind - 1).keys) > DEGREE - 1
                              THEN <<Call("borrow_from_left", self, needed_ch_ind, "remove", depth)>>
                                   \o remove_calls(borrow_from_left(self, ind, needed_ch_ind),
                                                   key, "retry", depth + 1)
                              ELSE remove_merge_calls(self, key, ind, TRUE, depth)
                ELSE remove_calls(ch, key, "parent", depth + 1)

\* The calls of Page.remove(key) on self, the call itself first.
remove_calls(self, key, by, depth) ==
  LET ind == Max(bisect_right(self.keys, key) - 1, 0)
  IN  <<Call("remove", self, 0, by, depth)>>
      \o (IF is_external(self) \/ Len(self.keys) = 0
            THEN <<>>
            ELSE IF At(self.keys, ind).key = key
                   THEN remove_case2_calls(self, key, ind, depth)
                   ELSE remove_case3_calls(self, key, ind, depth))

\* The calls of BTree.remove
tree_remove_calls(rt, key) == remove_calls(rt, key, "tree", 1)

\* The calls of Page.split that BTree._put makes (line 261, through
\* split_and_add_page), on the child as the recursive call left it.
RECURSIVE put_calls(_, _, _)
put_calls(page, key, value) ==
  IF is_external(page) \/ key_in(key, page.keys)
    THEN <<>>
    ELSE LET ind == bisect_right(page.keys, key)
         IN  IF Len(page.children) <= ind
               THEN <<>>
               ELSE LET r == put(At(page.children, ind), key, value)
                    IN  put_calls(At(page.children, ind), key, value)
                        \o (IF r.exc = "None" /\ is_full(r.self)
                              THEN <<Call("split", r.self, ind, "split_and_add_page", 0)>>
                              ELSE <<>>)

\* The calls of Page.split that BTree.add_key_value makes: those of _put,
\* then the split of the root (line 227).
add_key_value_calls(rt, key, value) ==
  LET r == put(rt, key, value)
  IN  put_calls(rt, key, value)
      \o (IF r.exc = "None" /\ is_full(r.self)
            THEN <<Call("split", r.self, 0, "add_key_value", 0)>>
            ELSE <<>>)

----------------------------------------------------------------------------
(* NaiveTreeIndex: the dict as a function on the keys it holds. *)

naive_add_key_value(tree, key, value) ==
  IF key \in DOMAIN tree
    THEN [tree EXCEPT ![key] = Append(@, value)]
    ELSE [k \in DOMAIN tree \cup {key} |-> IF k = key THEN <<value>> ELSE tree[k]]

naive_find(tree, key) == IF key \in DOMAIN tree THEN Found(tree[key]) ELSE None

naive_remove(tree, key) ==
  IF key \in DOMAIN tree
    THEN [k \in DOMAIN tree \ {key} |-> tree[k]]
    ELSE tree

----------------------------------------------------------------------------
(* Views of a tree, used to state its properties. *)

\* The pages of the subtree of a page.
RECURSIVE Nodes(_)
Nodes(page) ==
  {page} \cup UNION {Nodes(page.children[i]) : i \in 1..Len(page.children)}

NonRootNodes(rt) == UNION {Nodes(rt.children[i]) : i \in 1..Len(rt.children)}

\* The keys of the subtree of a page.
KeysOf(page) == UNION {{n.keys[i].key : i \in 1..Len(n.keys)} : n \in Nodes(page)}

\* The number of levels BTree.print_tree prints: a line per level, the next
\* level being the children of the pages of this one.
RECURSIVE Levels(_)
Levels(page) ==
  IF Len(page.children) = 0
    THEN 1
    ELSE LET below == {Levels(page.children[i]) : i \in 1..Len(page.children)}
         IN  1 + CHOOSE m \in below : \A n \in below : n <= m

\* The depths at which the bottom pages of a subtree lie.
RECURSIVE LeafDepths(_, _)
LeafDepths(page, depth) ==
  IF is_external(page)
    THEN {depth}
    ELSE UNION {LeafDepths(page.children[i], depth + 1) : i \in 1..Len(page.children)}

\* The entries of a subtree from left to right: child 0, key 0, child 1, ...
RECURSIVE InOrder(_)
RECURSIVE InOrderFrom(_, _)
InOrderFrom(page, i) ==
  IF i > Max(Len(page.keys), Len(page.children) - 1)
    THEN <<>>
    ELSE (IF i < Len(page.children) THEN InOrder(At(page.children, i)) ELSE <<>>)
         \o (IF i < Len(page.keys) THEN <<At(page.keys, i)>> ELSE <<>>)
         \o InOrderFrom(page, i + 1)
InOrder(page) == InOrderFrom(page, 0)

\* Where a key is held before a call: in the root page, in another page
\* with children, in another bottom page, or nowhere.
locate(rt, key) ==
  IF key_in(key, rt.keys)
    THEN "root"
    ELSE IF \E n \in NonRootNodes(rt) : ~is_external(n) /\ key_in(key, n.keys)
           THEN "internal"
           ELSE IF \E n \in NonRootNodes(rt) : key_in(key, n.keys)
                  THEN "leaf"
                  ELSE "absent"

----------------------------------------------------------------------------
(* The index under test and its reference, driven with the same calls. *)

\* The inserts explored, within the bounds: a new key, or a key that holds
\* fewer than MaxVals values, as long as no more than MaxRepeated keys come
\* to hold more than one value.  The code never looks into a value, so the
\* values inserted under a key are numbered 1, 2, ... in the order of the
\* calls.
Explored(k, v) ==
  IF k \in DOMAIN naive
    THEN /\ Len(naive[k]) < MaxVals
         /\ Cardinality({j \in DOMAIN naive \ {k} : Len(naive[j]) > 1}) < MaxRepeated
         /\ v = Len(naive[k]) + 1
    ELSE v = 1

Init ==
  /\ root = Page(TRUE)
  /\ naive = [k \in {} |-> <<>>]
  /\ raised = "None"
  /\ last = [op |-> "init", where |-> "absent", levels |-> 1]

\* btree.add_key_value(SmartKey(k, v)) and naive.add_key_value(SmartKey(k, v))
Add(k, v) ==
  /\ Explored(k, v)
  /\ naive' = naive_add_key_value(naive, k, v)
  /\ last' = [op |-> "add", where |-> locate(root, k), levels |-> Levels(root)]
  /\ LET r == add_key_value(root, k, v)
     IN  /\ root' = r.self
         /\ raised' = r.exc

\* btree.remove(SmartKey(k)) and naive.remove(SmartKey(k))
Remove(k) ==
  /\ naive' = naive_remove(naive, k)
  /\ last' = [op |-> "remove", where |-> locate(root, k), levels |-> Levels(root)]
  /\ LET r == tree_remove(root, k)
     IN  /\ root' = r.self
         /\ raised' = r.exc

Next ==
  \/ \E k \in Keys, v \in Values : Add(k, v)
  \/ \E k \in Keys : Remove(k)

Spec == Init /\ [][Next]_vars

\* The elements of a list.
Range(s) == {s[i] : i \in DOMAIN s}

\* The calls on pages that the driver's next call can make on the tree as
\* it is: those of the removal of any key, and of the inserts explored.
RemoveCalls == UNION {Range(tree_remove_calls(root, k)) : k \in Keys}

AddCalls ==
  UNION {Range(add_key_value_calls(root, kv[1], kv[2])) :
           kv \in {x \in Keys \X Values : Explored(x[1], x[2])}}

----------------------------------------------------------------------------
(* The same driver around a tree whose root holds two keys over pages with
   children, which takes more keys than MaxKey. *)

\* Keys are 1..MaxDeepKey, and a key that is held can be removed only while
\* fewer than MaxMissing of these keys are missing from the tree.
MaxDeepKey == 12
MaxMissing == 1

DeepKeys == 1..MaxDeepKey

\* The keys of the add_key_value calls that build the tree from the empty
\* tree, in the order of the calls; the caller catches what a call raises.
\* The second call with the key 2 splits the root, and the second call with
\* the key 6 splits a child of the root.
DeepCalls == <<1, 2, 3, 4, 5, 6, 7, 2, 8, 9, 10, 11, 6, 12>>

\* The state of the driver after the first n calls of DeepCalls.
RECURSIVE Loaded(_)
Loaded(n) ==
  IF n = 0
    THEN [root |-> Page(TRUE),
          naive |-> [k \in {} |-> <<>>],
          raised |-> "None",
          last |-> [op |-> "init", where |-> "absent", levels |-> 1]]
    ELSE LET s == Loaded(n - 1)
             k == DeepCalls[n]
             v == IF k \in DOMAIN s.naive THEN Len(s.naive[k]) + 1 ELSE 1
             r == add_key_value(s.root, k, v)
         IN  [root |-> r.self,
              naive |-> naive_add_key_value(s.naive, k, v),
              raised |-> r.exc,
              last |-> [op |-> "add", where |-> locate(s.root, k), levels |-> Levels(s.root)]]

\* The driver after the calls of DeepCalls: a root of the keys 4 and 8 over
\* three pages of one key and two bottom pages each.
DeepInit ==
  LET s == Loaded(Len(DeepCalls))
  IN  /\ root = s.root
      /\ naive = s.naive
      /\ raised = s.raised
      /\ last = s.last

\* btree.remove(SmartKey(k)) and naive.remove(SmartKey(k)), within the
\* bounds: of a key that is not held, or of a key that is held while fewer
\* than MaxMissing keys are missing.
DeepRemove(k) ==
  /\ \/ k \notin DOMAIN naive
     \/ Cardinality(DeepKeys \ DOMAIN naive) < MaxMissing
  /\ Remove(k)

DeepNext ==
  \/ \E k \in DeepKeys, v \in Values : Add(k, v)
  \/ \E k \in DeepKeys : DeepRemove(k)

SpecDeep == DeepInit /\ [][DeepNext]_vars

----------------------------------------------------------------------------
(* Properties *)

\* The values of a lookup, the empty list when the key is absent.
ValuesOf(res) == IF res.kind = "values" THEN res.value ELSE <<>>

\* C1: every page, the root included, holds at most 2*DEGREE-1 entries.
CapacityUpperBound ==
  \A n \in Nodes(root) : Len(n.keys) <= 2 * DEGREE - 1

\* C2: every page other than the root holds at least DEGREE-1 entries.
MinimumOccupancy ==
  \A n \in NonRootNodes(root) : Len(n.keys) >= DEGREE - 1

\* A key was removed from a tree of three levels and left a page other than
\* the root with exactly DEGREE-1 entries.
MinimumOccupancyWitness ==
  /\ last.op = "remove"
  /\ last.where # "absent"
  /\ Levels(root) >= 3
  /\ \E n \in NonRootNodes(root) : ~is_external(n) /\ Len(n.keys) = DEGREE - 1

\* C3: after every call, BTree.find_key and NaiveTreeIndex.find agree on
\* every key: the same list of values, or None from both.
ReferenceEquivalence ==
  \A k \in Keys : find_key(root, k) = naive_find(naive, k)

\* After a removal, the tree has pages below the root, a key with two
\* different values, and a key that is absent.
ReferenceEquivalenceWitness ==
  /\ last.op = "remove"
  /\ ~is_external(root)
  /\ \E k \in Keys : find_key(root, k) = Found(<<1, 2>>)
  /\ \E k \in Keys : naive_find(naive, k) = None

\* C4: BTree.add_key_value completes without raising.
AddNeverFails ==
  last.op = "add" => raised = "None"

\* C5: after BTree.remove(k) of a key k in the tree, find_key(k) is None.
RemovalCompleteness ==
  [][last'.op = "remove" =>
       \A k \in Keys :
         (find_key(root, k).kind = "values" /\ Remove(k))
           => (raised' = "None" /\ find_key(root', k) = None)]_vars

\* A key held by a page between the root and the bottom was removed.
RemovalCompletenessWitness ==
  /\ last.op = "remove"
  /\ last.where = "internal"
  /\ raised = "None"

\* C6: inserting v under k appends v to the values find_key(k) returns
\* (starting from no values while k is absent), and neither an insert nor a
\* removal of another key changes what find_key(k) returns; so find_key(k)
\* is the list of the values inserted under k since k was last absent, in
\* insertion order.
MultimapSemantics ==
  [][/\ last'.op = "add" =>
          \A k \in Keys, v \in Values :
            Add(k, v) =>
              /\ find_key(root', k) = Found(Append(ValuesOf(find_key(root, k)), v))
              /\ \A j \in Keys \ {k} : find_key(root', j) = find_key(root, j)
     /\ last'.op = "remove" =>
          \A j \in Keys :
            \/ find_key(root', j) = find_key(root, j)
            \/ \A k \in Keys \ {j} : ~Remove(k)
    ]_vars

\* A second, different value was inserted under a key that a page with
\* children held, in a tree of three levels.
MultimapSemanticsWitness ==
  /\ last.op = "add"
  /\ last.where \in {"root", "internal"}
  /\ Levels(root) >= 3
  /\ \E n \in Nodes(root) :
       ~is_external(n) /\ \E i \in 1..Len(n.keys) : n.keys[i].value = <<1, 2>>

\* C7: the keys of every page increase strictly; the keys below child i of a
\* page are less than its key i and greater than its key i-1; and no key is
\* in two entries of the tree.
SearchTreeOrdering ==
  /\ \A n \in Nodes(root) :
       /\ \A i \in 1..Len(n.keys) - 1 : n.keys[i].key < n.keys[i + 1].key
       /\ \A c \in 1..Len(n.children) : \A k \in KeysOf(n.children[c]) :
            /\ c <= Len(n.keys) => k < n.keys[c].key
            /\ c > 1 => k > n.keys[c - 1].key
  /\ Len(InOrder(root)) = Cardinality(KeysOf(root))

\* A key held by the root of a tree of three levels was removed, and the
\* root still has a key.
SearchTreeOrderingWitness ==
  /\ last.op = "remove"
  /\ last.where = "root"
  /\ Levels(root) >= 3
  /\ Len(root.keys) >= 1

\* C8: all bottom pages are at the same depth.
HeightBalance ==
  Cardinality(LeafDepths(root, 0)) = 1

\* A removal merged the two children of the root of a tree of three levels
\* and made the merged page the root.
HeightBalanceWitness ==
  /\ last.op = "remove"
  /\ last.levels = 3
  /\ Levels(root) = 2

\* C9: a page with bottom = False has len(keys)+1 children, and a bottom
\* page has none.
NodeShape ==
  \A n \in Nodes(root) :
    IF is_external(n)
      THEN Len(n.children) = 0
      ELSE Len(n.children) = Len(n.keys) + 1

\* An insert split a page below the root of a tree of three levels.
NodeShapeWitness ==
  /\ last.op = "add"
  /\ last.where = "absent"
  /\ Levels(root) >= 3
  /\ \E n \in NonRootNodes(root) : ~is_external(n) /\ Len(n.keys) >= DEGREE

\* C10, as claimed: BTree.remove(k) of a key not in the tree leaves the
\* tree as it was, page by page.
RemoveAbsentIsNoOp ==
  [][last'.op = "remove" =>
       \/ root' = root
       \/ ~(\E k \in Keys : find_key(root, k) = None /\ Remove(k))]_vars

\* C10, amended: BTree.remove(k) of a key not in the tree leaves the
\* entries of the tree as they were, the same keys with the same values in
\* the same order, and adds no level; it may borrow and merge on the way
\* down, and take one level off.
RemoveAbsentKeepsEntries ==
  [][last'.op = "remove" =>
       \/ /\ raised' = "None"
          /\ InOrder(root') = InOrder(root)
          /\ Levels(root') \in {Levels(root), Levels(root) - 1}
       \/ ~(\E k \in Keys : find_key(root, k) = None /\ Remove(k))]_vars

\* A key not in the tree was removed from a tree with pages below the root.
RemoveAbsentWitness ==
  /\ last.op = "remove"
  /\ last.where = "absent"
  /\ ~is_external(root)
  /\ Cardinality(KeysOf(root)) >= 2 * DEGREE

\* C11: BTree.remove(k) of a key k not in the tree leaves the result of
\* find_key(j) as it was, for every key j.
RemoveAbsentKeepsFinds ==
  [][last'.op = "remove" =>
       \A k \in Keys \ KeysOf(root) :
         Remove(k) => \A j \in Keys : find_key(root', j) = find_key(root, j)]_vars

\* A key not in the tree was removed, and the removal merged the children
\* of the root and took a level off the tree.
RemoveAbsentKeepsFindsWitness ==
  /\ last.op = "remove"
  /\ last.where = "absent"
  /\ raised = "None"
  /\ Levels(root) < last.levels

\* The pages Page.split is called on by the inserts explored, and the full
\* pages of the tree.
SplitInputs ==
  {c.self : c \in {x \in AddCalls : x.fn = "split"}}
    \cup {n \in Nodes(root) : is_full(n)}

\* C12, as claimed: Page.split of a page of 2*DEGREE-1 entries keeps the
\* first DEGREE-1 entries, promotes entries[DEGREE-1], and moves the last
\* DEGREE entries to a new page of the same kind; of the children the first
\* DEGREE stay and the rest move.
SplitMovesDegreeEntries ==
  \A p \in SplitInputs :
    LET s == split(p)
        n == Len(p.keys)
    IN  /\ s.self.keys = SubSeq(p.keys, 1, DEGREE - 1)
        /\ s.r_key = p.keys[DEGREE]
        /\ s.new_page.keys = SubSeq(p.keys, n - DEGREE + 1, n)
        /\ s.new_page.bottom = p.bottom
        /\ s.self.bottom = p.bottom
        /\ s.self.children = SubSeq(p.children, 1, Min(DEGREE, Len(p.children)))
        /\ s.new_page.children = SubSeq(p.children, DEGREE + 1, Len(p.children))

\* C12, amended: Page.split of a page of 2*DEGREE-1 entries keeps the first
\* DEGREE-1 entries, promotes entries[DEGREE-1], and moves the last
\* DEGREE-1 entries, entries[DEGREE:], to a new page of the same kind, so
\* that no entry is lost or repeated; of the 2*DEGREE children of a page
\* with children the first DEGREE stay and the last DEGREE move.
SplitMovesUpperHalf ==
  \A p \in SplitInputs :
    LET s == split(p)
        n == Len(p.keys)
    IN  /\ n = 2 * DEGREE - 1
        /\ s.self.keys = SubSeq(p.keys, 1, DEGREE - 1)
        /\ s.r_key = p.keys[DEGREE]
        /\ s.new_page.keys = SubSeq(p.keys, n - (DEGREE - 1) + 1, n)
        /\ s.self.keys \o <<s.r_key>> \o s.new_page.keys = p.keys
        /\ s.new_page.bottom = p.bottom
        /\ s.self.bottom = p.bottom
        /\ IF is_external(p)
             THEN s.self.children = <<>> /\ s.new_page.children = <<>>
             ELSE /\ Len(p.children) = 2 * DEGREE
                  /\ s.self.children = SubSeq(p.children, 1, DEGREE)
                  /\ s.new_page.children = SubSeq(p.children, DEGREE + 1, 2 * DEGREE)

\* An insert split a root that had children: the tree went from two levels
\* to three, and each half has DEGREE-1 entries and DEGREE children.
SplitMovesUpperHalfWitness ==
  /\ last.op = "add"
  /\ last.levels = 2
  /\ Levels(root) = 3
  /\ Len(root.keys) = 1
  /\ \A i \in 1..2 : /\ Len(root.children[i].keys) = DEGREE - 1
                     /\ Len(root.children[i].children) = DEGREE

\* C13: in every call the driver can make, Page.merge is called on two
\* neighbouring children of DEGREE-1 entries each, so that the merged page
\* holds 2*DEGREE-1; borrow_from_left and borrow_from_right are called when
\* the sibling that lends holds more than DEGREE-1 entries; and Page.split
\* is called on a page of 2*DEGREE-1 entries.
RepairPreconditions ==
  /\ \A c \in RemoveCalls :
       /\ c.fn = "merge" =>
            LET left == At(c.self.children, c.ind)
                right == At(c.self.children, c.ind + 1)
                merged == At(merge(c.self, c.ind, left, right).children, c.ind)
            IN  /\ Len(left.keys) = DEGREE - 1
                /\ Len(right.keys) = DEGREE - 1
                /\ Len(merged.keys) = 2 * DEGREE - 1
       /\ c.fn = "borrow_from_left" =>
            Len(At(c.self.children, c.ind - 1).keys) > DEGREE - 1
       /\ c.fn = "borrow_from_right" =>
            Len(At(c.self.children, c.ind + 1).keys) > DEGREE - 1
  /\ \A c \in AddCalls :
       c.fn = "split" => Len(c.self.keys) = 2 * DEGREE - 1

\* A tree of three levels on which a removal merges two pages that have
\* children, removals borrow from the left and from the right, and an
\* insert splits a page.
RepairPreconditionsWitness ==
  /\ Levels(root) = 3
  /\ \E c \in RemoveCalls :
       c.fn = "merge" /\ ~is_external(At(c.self.children, c.ind))
  /\ \E c \in RemoveCalls : c.fn = "borrow_from_left"
  /\ \E c \in RemoveCalls : c.fn = "borrow_from_right"
  /\ \E c \in AddCalls : c.fn = "split"

\* C14: in every BTree.remove the driver can make, every Page.remove that a
\* page calls on a child page (ch.remove, pred_ch.remove, succ_ch.remove,
\* merged.remove) is called on a page that holds at least DEGREE entries at
\* the moment of the call.
RepairBeforeDescent ==
  \A c \in RemoveCalls :
    (c.fn = "remove" /\ c.by = "parent") => Len(c.self.keys) >= DEGREE

\* A tree of three levels on which the removal of a key goes down into a
\* page with children after a borrow, and the removal of a key goes down
\* into a merged page.
RepairBeforeDescentWitness ==
  /\ Levels(root) = 3
  /\ \E k \in Keys :
       \E i \in 1..Len(tree_remove_calls(root, k)) - 2 :
         /\ tree_remove_calls(root, k)[i].fn \in {"borrow_from_left", "borrow_from_right"}
         /\ tree_remove_calls(root, k)[i + 2].by = "parent"
         /\ ~is_external(tree_remove_calls(root, k)[i + 2].self)
  /\ \E k \in Keys :
       \E i \in 1..Len(tree_remove_calls(root, k)) - 1 :
         /\ tree_remove_calls(root, k)[i].fn = "merge"
         /\ tree_remove_calls(root, k)[i + 1].by = "parent"

\* C15: while the tree is a single bottom root of at most 2*DEGREE-2 keys
\* inserted once each, as it is from the empty tree on, the insert of a new
\* key leaves a single bottom root with one key more until the root holds
\* 2*DEGREE-2 keys; the insert of the next new key, the (2*DEGREE-1)th,
\* splits the root exactly once and leaves two levels: a root of one entry
\* over two bottom pages of DEGREE-1 entries each.
RootSplitThreshold ==
  [][(/\ last'.op = "add"
      /\ is_external(root)
      /\ Len(root.keys) <= 2 * DEGREE - 2
      /\ \A i \in 1..Len(root.keys) : Len(root.keys[i].value) = 1) =>
       \A k \in Keys \ KeysOf(root) :
         Add(k, 1) =>
           /\ raised' = "None"
           /\ IF Len(root.keys) < 2 * DEGREE - 2
                THEN /\ is_external(root')
                     /\ Len(root'.keys) = Len(root.keys) + 1
                     /\ Levels(root') = 1
                     /\ add_key_value_calls(root, k, 1) = <<>>
                ELSE /\ Len(add_key_value_calls(root, k, 1)) = 1
                     /\ Levels(root') = 2
                     /\ ~is_external(root')
                     /\ Len(root'.keys) = 1
                     /\ Len(root'.children) = 2
                     /\ \A i \in 1..2 : /\ is_external(root'.children[i])
                                        /\ Len(root'.children[i].keys) = DEGREE - 1]_vars

\* The (2*DEGREE-1)th key was inserted into a single bottom root, and the
\* tree has two levels.
RootSplitThresholdWitness ==
  /\ last.op = "add"
  /\ last.where = "absent"
  /\ last.levels = 1
  /\ raised = "None"
  /\ Levels(root) = 2
  /\ Cardinality(KeysOf(root)) = 2 * DEGREE - 1
  /\ \A k \in DOMAIN naive : naive[k] = <<1>>

\* C16: an insert adds one level when _put returns and leaves the root
\* full, which add_key_value then splits, and no level otherwise; a removal
\* takes one level off when a merge leaves the root without entries, the
\* merged page becoming the root, and no level otherwise.
HeightChangesAtRoot ==
  [][/\ last'.op = "add" =>
          \A k \in Keys, v \in Values :
            Add(k, v) =>
              IF put(root, k, v).exc = "None" /\ is_full(put(root, k, v).self)
                THEN /\ Levels(root') = Levels(root) + 1
                     /\ root'.children[1] = split(put(root, k, v).self).self
                ELSE Levels(root') = Levels(root)
     /\ last'.op = "remove" =>
          \A k \in Keys :
            Remove(k) =>
              IF ~is_external(root) /\ Len(remove(root, k).self.keys) = 0
                THEN /\ Levels(root') = Levels(root) - 1
                     /\ tree_remove_calls(root, k)[2] = Call("merge", root, 0, "remove", 1)
                     /\ root' = At(remove(root, k).self.children, 0)
                ELSE Levels(root') = Levels(root)
    ]_vars

\* The removal of a key held below the root of a tree of three levels
\* merged the two children of the root and left two levels.
HeightChangesAtRootWitness ==
  /\ last.op = "remove"
  /\ last.where \in {"internal", "leaf"}
  /\ last.levels = 3
  /\ Levels(root) = 2
  /\ raised = "None"

\* C17: after every call, the root holds no entry only if it is a bottom
\* page, and no page with children, the root included, holds no entry;
\* neither find_key nor remove, of any key, meets a page with children and
\* no entry or fails to index a list.
NonDegenerateRoot ==
  /\ Len(root.keys) = 0 => is_external(root)
  /\ \A n \in Nodes(root) : ~is_external(n) => Len(n.keys) >= 1
  /\ \A k \in Keys : find_key(root, k).kind # "IndexError"
  /\ \A k \in Keys : remove(root, k).exc = "None"
  /\ \A c \in RemoveCalls :
       (c.fn = "remove" /\ ~is_external(c.self)) => Len(c.self.keys) >= 1

\* The only key of the root of a tree of three levels was removed: the two
\* children of the root were merged, the root was left without entries,
\* and the merged page is the root.
NonDegenerateRootWitness ==
  /\ last.op = "remove"
  /\ last.where = "root"
  /\ last.levels = 3
  /\ Levels(root) = 2
  /\ raised = "None"

\* C18: the removal of any key from any reachable tree returns; when a
\* page has borrowed or merged and calls self.remove(key) once more (line
\* 207), that call makes no borrow and no merge: the next call is
\* Page.remove on a child of the page that holds more than DEGREE-1
\* entries; no page borrows or merges twice, so that no more borrows and
\* merges are made than the tree has levels with children; and the stack
\* never holds more Page.remove frames than the levels of the tree and one
\* retry for each level with children.
RemoveTerminates ==
  \A k \in DeepKeys :
    LET log == tree_remove_calls(root, k)
    IN  /\ tree_remove(root, k).exc = "None"
        /\ \A i \in DOMAIN log :
             /\ (log[i].fn = "remove" /\ log[i].by = "retry") =>
                  /\ i < Len(log)
                  /\ log[i + 1].fn = "remove"
                  /\ log[i + 1].by = "parent"
                  /\ log[i + 1].depth = log[i].depth + 1
                  /\ log[i + 1].self \in Range(log[i].self.children)
                  /\ Len(log[i + 1].self.keys) > DEGREE - 1
             /\ log[i].depth <= 2 * Levels(root) - 1
        /\ Cardinality({i \in DOMAIN log :
                          log[i].fn \in {"merge", "borrow_from_left", "borrow_from_right"}})
             <= Levels(root) - 1

\* The tree with the value appended to the entry of the key in the page
\* that holds it, and nothing else changed.
RECURSIVE AppendedAt(_, _, _)
AppendedAt(page, key, value) ==
  [bottom |-> page.bottom,
   keys |-> [i \in 1..Len(page.keys) |->
               IF page.keys[i].key = key
                 THEN [page.keys[i] EXCEPT !.value = Append(@, value)]
                 ELSE page.keys[i]],
   children |-> [i \in 1..Len(page.children) |-> AppendedAt(page.children[i], key, value)]]

\* C19: BTree.add_key_value(k, v) of a key k that a page of the tree holds
\* appends v to the entry of k in that page, calls no split, and leaves
\* the keys, the entries of every page, the pages and the number of levels
\* as they were.
DuplicateInsertKeepsStructure ==
  [][last'.op = "add" =>
       \A k \in KeysOf(root), v \in Values :
         Add(k, v) =>
           /\ add_key_value_calls(root, k, v) = <<>>
           /\ root' = AppendedAt(root, k, v)
           /\ Levels(root') = Levels(root)]_vars

====
